---- MODULE Spec2Model ----
(***************************************************************************)
(* Model of UpdateApi (Extension/src/background/api/update/main.ts): the   *)
(* schema migration runner of the browser extension, its four migration    *)
(* steps (v0->v1, v1->v2, v2->v3, v3->v4) and the reset of the settings on *)
(* failure.  Every `await` of the source is a separate action; the         *)
(* synchronous code between two awaits belongs to the action of the await  *)
(* that precedes it.                                                       *)
(***************************************************************************)
EXTENDS Integers, Sequences, FiniteSets, TLC

(***************************************************************************)
(* Bounds of the model.                                                    *)
(***************************************************************************)
\* Largest currentSchemaVersion the host passes (the registry ends at 3).
MaxSchemaVersion == 5
\* Longest filter text (in characters) held by the legacy backend.
MaxTextLen == 2

(***************************************************************************)
(* JavaScript values.  Every value is a record tagged by its `typeof` (an  *)
(* array is tagged "array"), with the payload in a field of its own name.  *)
(* A string is a sequence of characters; a string that is JSON text        *)
(* carries the parsed document in `json`, with object members kept in the  *)
(* order in which they are written.  An object is the sequence of its      *)
(* <<key, value>> members in insertion order.                              *)
(***************************************************************************)
Undefined == [t |-> "undefined"]
Null == [t |-> "null"]
Str(s) == [t |-> "string", s |-> s]
JsonStr(j) == [t |-> "string", json |-> j]
Num(n) == [t |-> "number", n |-> n]
Bool(b) == [t |-> "boolean", b |-> b]
Arr(a) == [t |-> "array", a |-> a]
Obj(members) == [t |-> "object", o |-> members]

IsString(x) == x.t = "string"
IsJsonText(x) == x.t = "string" /\ "json" \in DOMAIN x
IsObject(x) == x.t = "object"
IsArray(x) == x.t = "array"
IsNumber(x) == x.t = "number"
IsBoolean(x) == x.t = "boolean"

\* JavaScript truthiness: `if (data)`, `Boolean(x)`.
Truthy(x) ==
    CASE x.t = "undefined" -> FALSE
      [] x.t = "null" -> FALSE
      [] x.t = "boolean" -> x.b
      [] x.t = "number" -> x.n # 0
      [] IsString(x) -> IsJsonText(x) \/ x.s # <<>>
      [] OTHER -> TRUE

\* Members of an object, in order.
HasKey(o, k) == \E i \in 1..Len(o) : o[i][1] = k
GetKey(o, k) == IF HasKey(o, k) THEN o[CHOOSE i \in 1..Len(o) : o[i][1] = k][2] ELSE Undefined
\* obj[k] = v: an existing member keeps its place, a new one goes last.
PutKey(o, k, v) ==
    IF HasKey(o, k)
    THEN [i \in 1..Len(o) |-> IF o[i][1] = k THEN <<k, v>> ELSE o[i]]
    ELSE Append(o, <<k, v>>)
\* delete obj[k]
DelKey(o, k) == SelectSeq(o, LAMBDA m : m[1] # k)
Keys(o) == {o[i][1] : i \in 1..Len(o)}
\* { ...a, ...b }
RECURSIVE Spread(_, _)
Spread(a, b) == IF b = <<>> THEN a ELSE Spread(PutKey(a, Head(b)[1], Head(b)[2]), Tail(b))
\* Two objects with the same members, whatever their order.
SameMembers(a, b) == Keys(a) = Keys(b) /\ \A k \in Keys(a) : GetKey(a, k) = GetKey(b, k)

(***************************************************************************)
(* Text.  A filter text is a sequence over Chars; CR and LF are the two    *)
(* line-break characters.                                                  *)
(***************************************************************************)
CR == "\r"
LF == "\n"
Chars == {"a", CR, LF}
RECURSIVE TextsOfLen(_)
TextsOfLen(n) == IF n = 0 THEN {<<>>} ELSE {<<c>> \o s : c \in Chars, s \in TextsOfLen(n - 1)}
Texts == UNION {TextsOfLen(n) : n \in 0..MaxTextLen}

\* String.prototype.split(/\r?\n/): the lines of a text.
RECURSIVE SplitLines(_)
SplitLines(s) ==
    IF s = <<>> THEN << <<>> >>
    ELSE IF Head(s) = LF THEN << <<>> >> \o SplitLines(Tail(s))
    ELSE IF Head(s) = CR /\ Len(s) >= 2 /\ s[2] = LF THEN << <<>> >> \o SplitLines(Tail(Tail(s)))
    ELSE LET rest == SplitLines(Tail(s)) IN << <<Head(s)>> \o Head(rest) >> \o Tail(rest)
\* The lines as an array of strings.
LinesArray(lines) == Arr([i \in 1..Len(lines) |-> Str(lines[i])])

(***************************************************************************)
(* Storage keys.  A key is a sequence of tokens, so that a prefix test and *)
(* the extraction of a filter id work on the key's parts.                  *)
(***************************************************************************)
FILTER_KEY_PREFIX == "filterrules_"
RAW_FILTER_KEY_PREFIX == "raw_filterrules_"
ADGUARD_SETTINGS_KEY == <<"adguard-settings">>
APP_VERSION_KEY == <<"app-version">>
CLIENT_ID_KEY == <<"client-id">>
SCHEMA_VERSION_KEY == <<"schema-version">>
SB_LRU_CACHE_KEY == <<"sb-lru-cache">>

\* Decimal text of the filter ids of the model: IdTexts[i] is the text of i.
IdTexts == <<"1", "2">>
FilterIds == 1..Len(IdTexts)
IsNumericText(s) == \E i \in FilterIds : IdTexts[i] = s
NumberOfText(s) == CHOOSE i \in FilterIds : IdTexts[i] = s

\* String.prototype.startsWith on a key.
StartsWith(key, prefix) == Len(key) >= 1 /\ key[1] = prefix
\* FiltersStorage.getFilterKey / RawFiltersStorage.getFilterKey
GetFilterKey(filterId) == <<FILTER_KEY_PREFIX, IdTexts[filterId]>>
GetRawFilterKey(filterId) == <<RAW_FILTER_KEY_PREFIX, IdTexts[filterId]>>
\* FiltersStorage.extractFilterIdFromFilterKey: the id, or null.
ExtractFilterIdFromFilterKey(key) ==
    IF Len(key) = 2 /\ key[1] = FILTER_KEY_PREFIX /\ IsNumericText(key[2])
    THEN Num(NumberOfText(key[2])) ELSE Null
\* RawFiltersStorage.extractFilterIdFromFilterKey
ExtractRawFilterIdFromFilterKey(key) ==
    IF Len(key) = 2 /\ key[1] = RAW_FILTER_KEY_PREFIX /\ IsNumericText(key[2])
    THEN Num(NumberOfText(key[2])) ELSE Null
\* FiltersStorage.prepareFilterForStorage: the lines under the filter's key.
PrepareFilterForStorage(filterId, lines) == << <<GetFilterKey(filterId), lines>> >>

\* Keys whose filter id cannot be extracted.
BadFilterKey == <<FILTER_KEY_PREFIX, "x">>
BadRawFilterKey == <<RAW_FILTER_KEY_PREFIX, "x">>
ProcessedFilterKeys == {GetFilterKey(i) : i \in FilterIds} \cup {BadFilterKey}
RawFilterKeys == {GetRawFilterKey(i) : i \in FilterIds} \cup {BadRawFilterKey}
\* The fields that migrateFromV0toV1 moves out of the settings, in order.
MovedFields ==
    <<"viewed-notifications", "viewed-notification-time", "client-id",
      "page-statistic", "safebrowsing-suspended-from", "sb-lru-cache">>
NamedKeys ==
    {ADGUARD_SETTINGS_KEY, APP_VERSION_KEY, CLIENT_ID_KEY, SCHEMA_VERSION_KEY}
        \cup {<<MovedFields[i]>> : i \in 1..Len(MovedFields)}
StorageKeys == NamedKeys \cup ProcessedFilterKeys \cup RawFilterKeys

(***************************************************************************)
(* JSON.                                                                   *)
(***************************************************************************)
\* The order in which JavaScript enumerates the members of an object:
\* integer keys ascending, then the other keys in insertion order.
RECURSIVE IntegerMembers(_, _)
IntegerMembers(o, i) ==
    IF i > Len(IdTexts) THEN <<>>
    ELSE SelectSeq(o, LAMBDA m : m[1] = IdTexts[i]) \o IntegerMembers(o, i + 1)
PropertyOrder(o) == IntegerMembers(o, 1) \o SelectSeq(o, LAMBDA m : ~IsNumericText(m[1]))
\* The value JSON.parse builds from a document.
RECURSIVE Revive(_)
Revive(j) ==
    CASE IsObject(j) ->
            LET o == PropertyOrder(j.o)
            IN Obj([i \in 1..Len(o) |-> <<o[i][1], Revive(o[i][2])>>])
      [] IsArray(j) -> Arr([i \in 1..Len(j.a) |-> Revive(j.a[i])])
      [] OTHER -> j
\* JSON.parse(text) throws on a text that is not JSON.
JSONParseThrows(x) == ~IsJsonText(x)
JSONParse(x) == Revive(x.json)
\* JSON.stringify(value): the members in the value's own order.
JSONStringify(x) == JsonStr(x)

(***************************************************************************)
(* zod.  A parse result is [ok, data].                                     *)
(***************************************************************************)
Fail == [ok |-> FALSE, data |-> Undefined]
Ok(d) == [ok |-> TRUE, data |-> d]

\* The field validators used in the shapes below.
Valid(kind, x) ==
    CASE kind = "boolean?" -> x = Undefined \/ IsBoolean(x)
      [] kind = "number" -> IsNumber(x)
      [] kind = "number?" -> x = Undefined \/ IsNumber(x)
      [] kind = "numberOrString?" -> x = Undefined \/ IsNumber(x) \/ IsString(x)
      [] kind = "string" -> IsString(x)
      [] OTHER -> FALSE
\* The members of o named by the shape, in shape order, then the others.
RECURSIVE ShapeMembers(_, _)
ShapeMembers(shape, o) ==
    IF shape = <<>> THEN <<>>
    ELSE (IF HasKey(o, Head(shape)[1])
          THEN << <<Head(shape)[1], GetKey(o, Head(shape)[1])>> >> ELSE <<>>)
         \o ShapeMembers(Tail(shape), o)
ShapeKeys(shape) == {shape[i][1] : i \in 1..Len(shape)}
\* zod.object(shape).passthrough().parse(x)
ZodObjectPassthrough(shape, x) ==
    IF ~IsObject(x) \/ \E i \in 1..Len(shape) : ~Valid(shape[i][2], GetKey(x.o, shape[i][1]))
    THEN Fail
    ELSE Ok(Obj(ShapeMembers(shape, x.o) \o SelectSeq(x.o, LAMBDA m : m[1] \notin ShapeKeys(shape))))
\* The members of an object and the elements of an array; none for another value.
Members(x) == IF IsObject(x) THEN x.o ELSE <<>>
Elements(x) == IF IsArray(x) THEN x.a ELSE <<>>
\* zod.record(value).parse(x); parsed[i] is the parse of the i-th member's value.
ZodRecord(x, parsed) ==
    IF ~IsObject(x) \/ \E i \in 1..Len(parsed) : ~parsed[i].ok
    THEN Fail
    ELSE Ok(Obj([i \in 1..Len(parsed) |-> <<Members(x)[i][1], parsed[i].data>>]))
\* value.array().parse(x); parsed[i] is the parse of the i-th element.
ZodArray(x, parsed) ==
    IF ~IsArray(x) \/ \E i \in 1..Len(parsed) : ~parsed[i].ok
    THEN Fail
    ELSE Ok(Arr([i \in 1..Len(parsed) |-> parsed[i].data]))
\* zod.record(zod.unknown()).parse(x)
ZodUnknownRecord(x) == IF IsObject(x) THEN Ok(x) ELSE Fail

\* SchemaPreprocessor.numberValidator: a number, or a string that reads as one.
NumberValidator(x) ==
    CASE IsNumber(x) -> Ok(x)
      [] IsString(x) /\ ~IsJsonText(x) /\ Len(x.s) = 1 /\ IsNumericText(x.s[1]) -> Ok(Num(NumberOfText(x.s[1])))
      [] OTHER -> Fail
\* SchemaPreprocessor.booleanValidator: a boolean, or the text of one.
BooleanValidator(x) ==
    CASE IsBoolean(x) -> Ok(x)
      [] x = Str(<<"true">>) -> Ok(Bool(TRUE))
      [] x = Str(<<"false">>) -> Ok(Bool(FALSE))
      [] OTHER -> Fail

(***************************************************************************)
(* The default configuration, and the settings of the four schema          *)
(* versions.  Of the thirty-two fields of the settings the model keeps one *)
(* of each kind that the validator of migrateFromV0toV1 knows: the theme,  *)
(* a number, a plain string, three booleans and the four serialized        *)
(* sub-structures.                                                         *)
(***************************************************************************)
DefaultSettings ==
    << <<"appearance-theme", Str(<<"system">>)>>,
       <<"filters-update-period", Num(-1)>>,
       <<"allowlist-domains", JsonStr(Arr(<<>>))>>,
       <<"default-allowlist-mode", Bool(TRUE)>>,
       <<"stealth-disable-stealth-mode", Bool(TRUE)>>,
       <<"filters-state", JsonStr(Obj(<<>>))>>,
       <<"filters-version", JsonStr(Obj(<<>>))>>,
       <<"groups-state", JsonStr(Obj(<<>>))>>,
       <<"custom-filters", JsonStr(Arr(<<>>))>>,
       <<"adguard-disabled", Bool(FALSE)>> >>
defaultSettings == Obj(DefaultSettings)

(***************************************************************************)
(* migrateFromV0toV1: the reshaping of the settings object.                *)
(***************************************************************************)
\* if (currentSettings[k]) delete currentSettings[k]
DeleteIfTruthy(o, k) == IF Truthy(GetKey(o, k)) THEN DelKey(o, k) ELSE o
\* A rename that deletes the old field without copying its value.
RenameFieldDropsValue(o, old, new) == DelKey(o, old)
\* if (currentSettings[old] !== undefined) { currentSettings[new] = ...; delete ... }
RenameField(o, old, new) ==
    IF GetKey(o, old) # Undefined THEN DelKey(PutKey(o, new, GetKey(o, old)), old) ELSE o
\* JSON.parse(o[k]) of the settings so far, where it is JSON text.
FieldJson(r, k) ==
    IF r.ok /\ IsJsonText(GetKey(r.data.o, k)) THEN JSONParse(GetKey(r.data.o, k)) ELSE Undefined
\* if (typeof o[k] === 'string') o[k] = JSON.stringify(transformer.parse(JSON.parse(o[k]))),
\* p being the transformer's parse of FieldJson(r, k).
NestedTransform(r, k, p) ==
    IF ~r.ok THEN r
    ELSE LET x == GetKey(r.data.o, k)
         IN IF ~IsString(x) THEN r
            ELSE IF JSONParseThrows(x) \/ ~p.ok THEN Fail
            ELSE Ok(Obj(PutKey(r.data.o, k, JSONStringify(p.data))))

\* groupsStateTransformer: { ...data, enabled, touched: enabled }
GroupsStateEntry(e) ==
    LET p == ZodObjectPassthrough(<< <<"enabled", "boolean?">> >>, e)
    IN IF ~p.ok THEN Fail
       ELSE LET enabled == Bool(Truthy(GetKey(p.data.o, "enabled")))
            IN Ok(Obj(PutKey(PutKey(p.data.o, "enabled", enabled), "touched", enabled)))
GroupsStateTransformer(x) ==
    ZodRecord(x, [i \in 1..Len(Members(x)) |-> GroupsStateEntry(Members(x)[i][2])])

\* filtersStateTransformer: { ...rest, enabled: Boolean(enabled), installed: Boolean(installed) }
FiltersStateEntry(e) ==
    LET p == ZodObjectPassthrough(<< <<"enabled", "boolean?">>, <<"installed", "boolean?">> >>, e)
    IN IF ~p.ok THEN Fail
       ELSE LET rest == DelKey(DelKey(p.data.o, "installed"), "enabled")
            IN Ok(Obj(rest \o << <<"enabled", Bool(Truthy(GetKey(p.data.o, "enabled")))>>,
                                 <<"installed", Bool(Truthy(GetKey(p.data.o, "installed")))>> >>))
FiltersStateTransformer(x) ==
    ZodRecord(x, [i \in 1..Len(Members(x)) |-> FiltersStateEntry(Members(x)[i][2])])

\* Number(x) as JSON.stringify writes it: NaN is written as null.
NumberForJson(x) ==
    CASE IsNumber(x) -> x
      [] IsString(x) /\ ~IsJsonText(x) /\ x.s = <<>> -> Num(0)
      [] NumberValidator(x).ok -> NumberValidator(x).data
      [] OTHER -> Null
\* customFiltersDataTransformer of v0->v1: { ...data, trusted, timeUpdated }, languages removed
CustomFilterEntryV0(e) ==
    LET p == ZodObjectPassthrough(<< <<"trusted", "boolean?">>, <<"timeUpdated", "numberOrString?">> >>, e)
    IN IF ~p.ok THEN Fail
       ELSE LET trusted == Bool(Truthy(GetKey(p.data.o, "trusted")))
                timeUpdated == IF GetKey(p.data.o, "timeUpdated") = Undefined THEN Num(0)
                               ELSE NumberForJson(GetKey(p.data.o, "timeUpdated"))
                data == IF GetKey(p.data.o, "languages") # Undefined
                        THEN DelKey(p.data.o, "languages") ELSE p.data.o
            IN Ok(Obj(PutKey(PutKey(data, "trusted", trusted), "timeUpdated", timeUpdated)))
CustomFiltersTransformerV0(x) ==
    ZodArray(x, [i \in 1..Len(Elements(x)) |-> CustomFilterEntryV0(Elements(x)[i])])

\* filtersVersionsTransformer: { ...rest, lastUpdateTime: lastUpdateTime ?? 0 }
FiltersVersionEntryV0(e) ==
    LET p == ZodObjectPassthrough(<< <<"lastUpdateTime", "number?">> >>, e)
    IN IF ~p.ok THEN Fail
       ELSE LET lastUpdateTime == GetKey(p.data.o, "lastUpdateTime")
            IN Ok(Obj(Append(DelKey(p.data.o, "lastUpdateTime"),
                             <<"lastUpdateTime", IF lastUpdateTime = Undefined THEN Num(0) ELSE lastUpdateTime>>)))
FiltersVersionsTransformerV0(x) ==
    ZodRecord(x, [i \in 1..Len(Members(x)) |-> FiltersVersionEntryV0(Members(x)[i][2])])

\* Lines 400-524: deletions, renames and the four nested transforms.  [ok, data]:
\* ok is FALSE when a JSON.parse or a transformer throws.
ReshapeSettingsV0(o) ==
    LET deleted == DeleteIfTruthy(DeleteIfTruthy(DeleteIfTruthy(o,
                       "app-version"), "filters-i18n-metadata"), "filters-metadata")
        renamed == RenameField(RenameField(RenameField(RenameField(deleted,
                       "default-whitelist-mode", "default-allowlist-mode"),
                       "white-list-domains", "allowlist-domains"),
                       "stealth_disable_stealth_mode", "stealth-disable-stealth-mode"),
                       "custom_filters", "custom-filters")
        groups == NestedTransform(Ok(Obj(renamed)), "groups-state",
                      GroupsStateTransformer(FieldJson(Ok(Obj(renamed)), "groups-state")))
        filters == NestedTransform(groups, "filters-state",
                       FiltersStateTransformer(FieldJson(groups, "filters-state")))
        custom == NestedTransform(filters, "custom-filters",
                      CustomFiltersTransformerV0(FieldJson(filters, "custom-filters")))
    IN NestedTransform(custom, "filters-version",
                       FiltersVersionsTransformerV0(FieldJson(custom, "filters-version")))

\* 'appearance-theme': a quoted text is JSON-parsed first, then the enum.
ThemeValidator(x) ==
    LET value == IF IsJsonText(x) /\ IsString(x.json) THEN x.json ELSE x
    IN IF value \in {Str(<<"system">>), Str(<<"dark">>), Str(<<"light">>)} THEN Ok(value) ELSE Fail
\* The shape of settingsValidator.
SettingsShape ==
    << <<"appearance-theme", "theme">>,
       <<"filters-update-period", "numberValidator">>,
       <<"allowlist-domains", "string">>,
       <<"default-allowlist-mode", "booleanValidator">>,
       <<"stealth-disable-stealth-mode", "booleanValidator">>,
       <<"filters-state", "string?">>,
       <<"filters-version", "string?">>,
       <<"groups-state", "string?">>,
       <<"custom-filters", "string?">>,
       <<"adguard-disabled", "booleanValidator">> >>
FieldParse(kind, x) ==
    CASE kind = "theme" -> ThemeValidator(x)
      [] kind = "numberValidator" -> NumberValidator(x)
      [] kind = "booleanValidator" -> BooleanValidator(x)
      [] kind = "string" -> IF IsString(x) THEN Ok(x) ELSE Fail
      [] kind = "string?" -> IF x = Undefined \/ IsString(x) THEN Ok(x) ELSE Fail
      [] OTHER -> Fail
RECURSIVE ParsedMembers(_, _)
ParsedMembers(shape, o) ==
    IF shape = <<>> THEN <<>>
    ELSE LET k == Head(shape)[1]
             p == FieldParse(Head(shape)[2], GetKey(o, k))
         IN (IF HasKey(o, k) \/ p.data # Undefined THEN << <<k, p.data>> >> ELSE <<>>)
            \o ParsedMembers(Tail(shape), o)
\* settingsValidator.parse(o): the fields of the shape, the others stripped.
SettingsValidator(o) ==
    IF \E i \in 1..Len(SettingsShape) : ~FieldParse(SettingsShape[i][2], GetKey(o, SettingsShape[i][1])).ok
    THEN Fail
    ELSE Ok(Obj(ParsedMembers(SettingsShape, o)))

(***************************************************************************)
(* migrateFromV1toV2: the safebrowsing cache.                              *)
(***************************************************************************)
\* SbCache.CACHE_TTL_MS: forty minutes.
CACHE_TTL_MS == 40 * 60 * 1000
\* zod.object({ key: string, value: string }).strict()
SbRecordV1(e) ==
    IF IsObject(e) /\ Keys(e.o) = {"key", "value"}
       /\ IsString(GetKey(e.o, "key")) /\ IsString(GetKey(e.o, "value"))
    THEN Ok(Obj(<< <<"key", GetKey(e.o, "key")>>, <<"value", GetKey(e.o, "value")>> >>))
    ELSE Fail
\* Lines 352-359: sbStorageDataV1.
SbStorageDataV1(x) == ZodArray(x, [i \in 1..Len(Elements(x)) |-> SbRecordV1(Elements(x)[i])])
\* A conversion that gives every record an expiry, the allowlist ones too.
SbRecordV2AlwaysExpires(e, now) ==
    Obj(<< <<"key", GetKey(e.o, "key")>>,
           <<"value", Obj(<< <<"list", GetKey(e.o, "value")>>,
                             <<"expires", Num(now + CACHE_TTL_MS)>> >>)>> >>)
\* { key, value: { list: value, expires?: now + TTL } }
SbRecordV2(e, now) ==
    LET list == GetKey(e.o, "value")
        record == IF list # Str(<<"allowlist">>)
                  THEN << <<"list", list>>, <<"expires", Num(now + CACHE_TTL_MS)>> >>
                  ELSE << <<"list", list>> >>
    IN Obj(<< <<"key", GetKey(e.o, "key")>>, <<"value", Obj(record)>> >>)
SbStorageDataV2(parsed, now) == Arr([i \in 1..Len(parsed.a) |-> SbRecordV2(parsed.a[i], now)])

(***************************************************************************)
(* migrateFromV2toV3: the rows of the indexed DB and the trusted flag.     *)
(***************************************************************************)
\* zod.object({ key: string, value: string })
ListRow(e) ==
    IF IsObject(e) /\ IsString(GetKey(e.o, "key")) /\ IsString(GetKey(e.o, "value"))
    THEN Ok(Obj(<< <<"key", GetKey(e.o, "key")>>, <<"value", GetKey(e.o, "value")>> >>))
    ELSE Fail
\* Lines 289-295: lists.
Lists(data) == ZodArray(data, [i \in 1..Len(Elements(data)) |-> ListRow(Elements(data)[i])])
\* customFiltersDataTransformer of v2->v3: { ...rest, trusted: Boolean(trusted) }
CustomFilterEntryV2(e) ==
    LET p == ZodObjectPassthrough(<< <<"trusted", "boolean?">> >>, e)
    IN IF ~p.ok THEN Fail
       ELSE Ok(Obj(Append(DelKey(p.data.o, "trusted"),
                          <<"trusted", Bool(Truthy(GetKey(p.data.o, "trusted")))>>)))
CustomFiltersTransformerV2(x) ==
    ZodArray(x, [i \in 1..Len(Elements(x)) |-> CustomFilterEntryV2(Elements(x)[i])])

(***************************************************************************)
(* migrateFromV3toV4: the filters and the per-filter check times.          *)
(***************************************************************************)
\* filterSchema: a string or an array of strings.
FilterSchemaOk(x) == IsString(x) \/ (IsArray(x) /\ \A i \in 1..Len(x.a) : IsString(x.a[i]))
\* A consolidation that stores the text of a processed filter unsplit.
FilterLinesKeepsText(x) == IF IsArray(x) THEN x ELSE Arr(<<x>>)
\* Lines 192-194: the lines of a processed filter.
FilterLines(x) == IF IsArray(x) THEN x ELSE LinesArray(SplitLines(x.s))
\* Lines 175-218: the data staged for the hybrid storage, as members.
RECURSIVE StageFilters(_, _, _)
StageFilters(keys, entries, staged) ==
    IF keys = {} THEN staged
    ELSE LET key == CHOOSE k \in keys : TRUE
             filterId == ExtractFilterIdFromFilterKey(key)
         IN StageFilters(keys \ {key}, entries,
                IF filterId = Null \/ ~FilterSchemaOk(entries[key]) THEN staged
                ELSE Spread(staged, PrepareFilterForStorage(filterId.n, FilterLines(entries[key]))))
RECURSIVE StageRawFilters(_, _, _)
StageRawFilters(keys, entries, staged) ==
    IF keys = {} THEN staged
    ELSE LET key == CHOOSE k \in keys : TRUE
             filterId == ExtractRawFilterIdFromFilterKey(key)
         IN StageRawFilters(keys \ {key}, entries,
                IF filterId = Null \/ ~IsString(entries[key]) THEN staged
                ELSE PutKey(staged, key, entries[key]))
MigrationData(filterKeys, rawFilterKeys, entries) ==
    StageRawFilters(rawFilterKeys, entries, StageFilters(filterKeys, entries, <<>>))

\* filterVersionDataValidatorV3
FilterVersionDataV3(e) ==
    ZodObjectPassthrough(<< <<"lastCheckTime", "number">>, <<"lastScheduledCheckTime", "number?">> >>, e)
\* filtersVersionDataValidatorV3: a record keyed by numbers.
FiltersVersionDataValidatorV3(x) ==
    IF IsObject(x) /\ \E i \in 1..Len(x.o) : ~IsNumericText(x.o[i][1])
    THEN Fail
    ELSE ZodRecord(x, [i \in 1..Len(Members(x)) |-> FilterVersionDataV3(Members(x)[i][2])])
\* Lines 252-256: lastScheduledCheckTime defaults to lastCheckTime.
BackfillScheduledCheckTime(filterData) ==
    IF GetKey(filterData.o, "lastScheduledCheckTime") = Undefined
    THEN Obj(PutKey(filterData.o, "lastScheduledCheckTime", GetKey(filterData.o, "lastCheckTime")))
    ELSE filterData
BackfillFiltersVersion(filtersVersion) ==
    Obj([i \in 1..Len(filtersVersion.o) |->
            <<filtersVersion.o[i][1], BackfillScheduledCheckTime(filtersVersion.o[i][2])>>])

(***************************************************************************)
(* The state.                                                              *)
(***************************************************************************)
VARIABLES
    pc,                \* the await at which update() is suspended
    runInfo,           \* the argument of update()
    schema,            \* the loop variable of runMigrations
    browserStorage,    \* browser.storage.local: key -> value (Undefined: absent)
    hybridStorage,     \* the hybrid storage: key -> value
    localStorage,      \* window.localStorage: the keys present
    settings,          \* the settings object a step is working on
    moved,             \* v0->v1: how many moveStorageData calls have returned
    sbStorageDataV2,   \* v1->v2: the cache text to write
    db,                \* v2->v3: the connection: "null", "open" or "closed"
    dbCloses,          \* v2->v3: how often db.close() ran
    lists,             \* v2->v3: the rows read from the indexed DB
    pending,           \* v2->v3: the writes of the batch that have not settled
    filterKeys,        \* v3->v4: the processed filter keys found
    rawFilterKeys,     \* v3->v4: the raw filter keys found
    migrationData,     \* v3->v4: the members staged for the hybrid storage
    entries,           \* v3->v4: the entries the step read last
    transactionResult, \* v3->v4: what hybridStorage.setMultiple returned last
    result,            \* the promise of update(): "pending", "resolved", "rejected"
    started,           \* the versions whose step was started, in order
    completed,         \* the versions whose step returned, in order
    recoveries,        \* how often the catch block of runMigrations was entered
    error,             \* what the catch block of runMigrations caught: its cause
    lastRead,          \* the locations the last action read: <<step, location>>
    removed,           \* the locations the steps deleted: <<step, location>>
    initial            \* browserStorage and hybridStorage as update() found them

vars ==
    <<pc, runInfo, schema, browserStorage, hybridStorage, localStorage, settings, moved,
      sbStorageDataV2, db, dbCloses, lists, pending, filterKeys, rawFilterKeys,
      migrationData, entries, transactionResult, result, started, completed, recoveries, error,
      lastRead, removed, initial>>
\* The variables of the steps' own frames.
locals ==
    <<settings, moved, sbStorageDataV2, db, dbCloses, lists, pending, filterKeys,
      rawFilterKeys, migrationData>>
\* What is kept of a run to state its properties.
history == <<entries, transactionResult, started, completed, recoveries, error, initial>>

\* UpdateApi.schemaMigrationMap: the source version -> the first await of its step.
schemaMigrationMap ==
    [v \in 0..3 |-> <<"v0_get", "v1_get", "v2_connect", "v3_entries">>[v + 1]]

(***************************************************************************)
(* The stores update() may find.                                           *)
(***************************************************************************)
\* A safebrowsing cache of schema v1.
SbCacheV1 ==
    JsonStr(Arr(<< Obj(<< <<"key", Str(<<"k1">>)>>, <<"value", Str(<<"allowlist">>)>> >>),
                   Obj(<< <<"key", Str(<<"k2">>)>>, <<"value", Str(<<"malware">>)>> >>) >>))
\* Settings as schema v0 wrote them.
SettingsV0 ==
    << <<"app-version", Str(<<"4.1">>)>>,
       <<"appearance-theme", Str(<<"dark">>)>>,
       <<"default-whitelist-mode", Bool(TRUE)>>,
       <<"stealth_disable_stealth_mode", Bool(FALSE)>>,
       <<"white-list-domains", JsonStr(Arr(<<>>))>>,
       <<"custom_filters", JsonStr(Arr(<< Obj(<< <<"customUrl", Str(<<"u">>)>> >>) >>))>>,
       <<"groups-state", JsonStr(Obj(<< <<"1", Obj(<< <<"enabled", Bool(TRUE)>> >>)>> >>))>>,
       <<"filters-state", JsonStr(Obj(<< <<"1", Obj(<< <<"enabled", Bool(TRUE)>> >>)>> >>))>>,
       <<"filters-version", JsonStr(Obj(<< <<"1", Obj(<< <<"version", Str(<<"1.0">>)>>,
                                                        <<"lastCheckTime", Num(10)>> >>)>> >>))>>,
       <<"client-id", Str(<<"cid0">>)>>,
       <<"sb-lru-cache", SbCacheV1>> >>
\* Settings whose nested structures already carry every field the steps add.
SettingsComplete ==
    PutKey(PutKey(PutKey(PutKey(DefaultSettings,
        "groups-state", JsonStr(Obj(<< <<"1", Obj(<< <<"enabled", Bool(TRUE)>>,
                                                     <<"touched", Bool(TRUE)>> >>)>> >>))),
        "filters-state", JsonStr(Obj(<< <<"1", Obj(<< <<"enabled", Bool(TRUE)>>,
                                                      <<"installed", Bool(TRUE)>>,
                                                      <<"loaded", Bool(TRUE)>> >>)>> >>))),
        "custom-filters", JsonStr(Arr(<< Obj(<< <<"trusted", Bool(FALSE)>>,
                                                <<"timeUpdated", Num(0)>>,
                                                <<"customUrl", Str(<<"u">>)>> >>) >>))),
        "filters-version", JsonStr(Obj(<< <<"1", Obj(<< <<"lastCheckTime", Num(10)>>,
                                                        <<"lastScheduledCheckTime", Num(20)>>,
                                                        <<"lastUpdateTime", Num(5)>> >>)>> >>)))
\* The settings records of the runs over the whole chain.
InitSettings ==
    {Undefined, Obj(SettingsV0), Obj(PutKey(SettingsV0, "appearance-theme", Str(<<"bad">>))),
     Obj(PutKey(SettingsV0, "safebrowsing-suspended-from", Num(0))),
     Obj(SettingsComplete), defaultSettings}

\* The entries of the per-filter version data, and the values of the field.
FilterVersionEntries ==
    {Obj(<< <<"lastCheckTime", Num(10)>> >>),
     Obj(<< <<"lastCheckTime", Num(10)>>, <<"lastScheduledCheckTime", Num(20)>> >>),
     Obj(<< <<"version", Str(<<"1.0">>)>>, <<"lastCheckTime", Num(10)>> >>),
     Obj(<< <<"version", Str(<<"1.0">>)>> >>)}
FiltersVersionValues ==
    {Undefined, Num(5), Str(<<"a">>), JsonStr(Arr(<<>>)), JsonStr(Obj(<<>>))}
        \cup {JsonStr(Obj(<< <<"1", e>> >>)) : e \in FilterVersionEntries}
        \cup {JsonStr(Obj(<< <<"1", e>>, <<"2", f>> >>)) :
                e \in FilterVersionEntries, f \in {Obj(<< <<"lastCheckTime", Num(30)>> >>)}}
\* The settings records of the runs of the v3->v4 step.
InitSettingsV3 ==
    {Undefined} \cup
    {Obj(IF fv = Undefined THEN DelKey(DefaultSettings, "filters-version")
         ELSE PutKey(DefaultSettings, "filters-version", fv)) : fv \in FiltersVersionValues}

\* What the legacy backend holds under a filter key.
FilterValues(text) == {Undefined, Str(text), LinesArray(SplitLines(text)), Num(7)}
\* browser.storage.local with the given settings, cache and filter entries.
Store(prev, clientId, record, cache, filters) ==
    [k \in StorageKeys |->
        CASE k = ADGUARD_SETTINGS_KEY -> record
          [] k = SCHEMA_VERSION_KEY -> Num(prev)
          [] k = APP_VERSION_KEY -> Str(<<"4.2">>)
          [] k = CLIENT_ID_KEY -> clientId
          [] k = SB_LRU_CACHE_KEY -> cache
          [] k \in DOMAIN filters -> filters[k]
          [] OTHER -> Undefined]
ClientIds == {Undefined, Str(<<"cid">>)}
currentAppVersion == Str(<<"4.3">>)

NoLocals ==
    /\ settings = Undefined
    /\ moved = 0
    /\ sbStorageDataV2 = Undefined
    /\ db = "null"
    /\ dbCloses = 0
    /\ lists = <<>>
    /\ pending = {}
    /\ filterKeys = {}
    /\ rawFilterKeys = {}
    /\ migrationData = <<>>

\* update() is called with a store of schema previousSchemaVersion.
InitRun(prev, cur, clientId, store) ==
    /\ pc = "setClientId"
    /\ runInfo = [clientId |-> clientId, currentAppVersion |-> currentAppVersion,
                  currentSchemaVersion |-> cur, previousSchemaVersion |-> prev]
    /\ schema = prev
    /\ browserStorage = store
    /\ hybridStorage = [k \in StorageKeys |-> Undefined]
    /\ localStorage = {"viewed-notifications", "viewed-notification-time"}
    /\ NoLocals
    /\ entries = [k \in StorageKeys |-> Undefined]
    /\ transactionResult = Undefined
    /\ result = "pending"
    /\ started = <<>>
    /\ completed = <<>>
    /\ recoveries = 0
    /\ error = "none"
    /\ lastRead = {}
    /\ removed = {}
    /\ initial = [browserStorage |-> store, hybridStorage |-> [k \in StorageKeys |-> Undefined]]

\* Runs over every span of versions, with a few stores.
InitChain ==
    \E cur \in 0..MaxSchemaVersion, clientId \in ClientIds, record \in InitSettings :
    \E prev \in 0..cur, cache \in {Undefined, SbCacheV1} :
    \E filters \in {<<>>,
                    (GetFilterKey(1) :> Str(<<"a", LF>>)) @@ (GetRawFilterKey(2) :> Str(<<"a", LF>>))} :
        InitRun(prev, cur, clientId, Store(prev, clientId, record, cache, filters))
\* Runs of the v3->v4 step alone, with every content of the legacy backend.
InitV3 ==
    \E text \in Texts, record \in InitSettingsV3 :
    \E f1 \in FilterValues(text), fx \in {Undefined, Str(text)},
       r2 \in {Undefined, Str(text), Num(7)} :
        InitRun(3, 4, Str(<<"cid">>),
                Store(3, Str(<<"cid">>), record, Undefined,
                      (GetFilterKey(1) :> f1) @@ (BadFilterKey :> fx) @@ (GetRawFilterKey(2) :> r2)))
Init == InitChain \/ InitV3

(***************************************************************************)
(* update() and runMigrations().  An awaited storage call either completes *)
(* (ok) or rejects.                                                        *)
(***************************************************************************)
\* InstallApi.genClientId()
GenClientId == Str(<<"generated">>)

\* update() rejects: an await outside every try block rejected.
Rejects ==
    /\ pc' = "done"
    /\ result' = "rejected"
\* The frames of the steps are gone.
ResetLocals ==
    /\ settings' = Undefined
    /\ moved' = 0
    /\ sbStorageDataV2' = Undefined
    /\ db' = "null"
    /\ dbCloses' = 0
    /\ lists' = <<>>
    /\ pending' = {}
    /\ filterKeys' = {}
    /\ rawFilterKeys' = {}
    /\ migrationData' = <<>>
\* A step throws: runSchemaMigration wraps the error and rethrows it, the catch
\* block of runMigrations is entered and issues the write of the defaults.
Raise(e) ==
    /\ pc' = "catch"
    /\ recoveries' = recoveries + 1
    /\ error' = e
    /\ ResetLocals
    /\ UNCHANGED <<runInfo, schema, result, started, completed, initial>>
Throws(e) == Raise(e) /\ UNCHANGED <<entries, transactionResult>>
\* A loop that advances by two versions after a step.
ReturnSkipsVersion ==
    /\ pc' = "runMigrations"
    /\ schema' = schema + 2
    /\ completed' = Append(completed, schema)
    /\ ResetLocals
    /\ UNCHANGED <<runInfo, result, started, recoveries, error, initial>>
\* A step returns: the loop of runMigrations goes on with the next version.
Return ==
    /\ pc' = "runMigrations"
    /\ schema' = schema + 1
    /\ completed' = Append(completed, schema)
    /\ ResetLocals
    /\ UNCHANGED <<runInfo, result, started, recoveries, error, initial>>
Returns == Return /\ UNCHANGED <<entries, transactionResult>>
\* browserStorage.set(key, value) completed.
Set(key, value) == browserStorage' = [browserStorage EXCEPT ![key] = value]

\* Where a field of the Settings Record and a key of window.localStorage lie;
\* a key of browser.storage.local is its own location.
SettingsField(field) == <<"adguard-settings", field>>
LocalStorageKey(key) == <<"localStorage", key>>
\* The locations that hold something.
Locations(storage, local) ==
    {k \in StorageKeys : storage[k] # Undefined}
        \cup (IF IsObject(storage[ADGUARD_SETTINGS_KEY])
              THEN {SettingsField(storage[ADGUARD_SETTINGS_KEY].o[i][1]) :
                        i \in 1..Len(storage[ADGUARD_SETTINGS_KEY].o)}
              ELSE {})
        \cup {LocalStorageKey(k) : k \in local}
\* browserStorage.get('adguard-settings') followed by accesses to the fields.
SettingsReads(fields) ==
    {ADGUARD_SETTINGS_KEY}
        \cup (IF IsObject(browserStorage[ADGUARD_SETTINGS_KEY])
              THEN {SettingsField(f) : f \in fields} ELSE {})
\* An action of the step of version schema reads the locations, and the
\* locations that it empties are noted.
StepReads(locations) ==
    /\ lastRead' = {<<schema, l>> : l \in locations}
    /\ removed' = removed \cup
            {<<schema, l>> : l \in Locations(browserStorage, localStorage)
                                    \ Locations(browserStorage', localStorage')}
\* An action of update() or of runMigrations outside every step: it reads nothing.
OutsideStep ==
    /\ lastRead' = {}
    /\ UNCHANGED removed
\* Lines 400-524: the fields that the v0->v1 step looks up in the record it read.
V0FieldsRead ==
    {"app-version", "filters-i18n-metadata", "filters-metadata", "default-whitelist-mode",
     "white-list-domains", "stealth_disable_stealth_mode", "custom_filters", "groups-state",
     "filters-state", "custom-filters", "filters-version"}

\* A bookkeeping that stores a generated client id whatever was supplied.
UpdateSetClientIdAlwaysGenerates ==
    /\ pc = "setClientId"
    /\ \E ok \in BOOLEAN :
        IF ok
        THEN /\ Set(CLIENT_ID_KEY, GenClientId)
             /\ pc' = "setSchemaVersion"
             /\ UNCHANGED result
        ELSE Rejects /\ UNCHANGED browserStorage
    /\ UNCHANGED <<runInfo, schema, hybridStorage, localStorage, locals, history>>
    /\ OutsideStep
\* Lines 79-83.
UpdateSetClientId ==
    /\ pc = "setClientId"
    /\ \E ok \in BOOLEAN :
        IF ok
        THEN /\ Set(CLIENT_ID_KEY, IF Truthy(runInfo.clientId) THEN runInfo.clientId ELSE GenClientId)
             /\ pc' = "setSchemaVersion"
             /\ UNCHANGED result
        ELSE Rejects /\ UNCHANGED browserStorage
    /\ UNCHANGED <<runInfo, schema, hybridStorage, localStorage, locals, history>>
    /\ OutsideStep

\* Line 86.
UpdateSetSchemaVersion ==
    /\ pc = "setSchemaVersion"
    /\ \E ok \in BOOLEAN :
        IF ok
        THEN /\ Set(SCHEMA_VERSION_KEY, Num(runInfo.currentSchemaVersion))
             /\ pc' = "setAppVersion"
             /\ UNCHANGED result
        ELSE Rejects /\ UNCHANGED browserStorage
    /\ UNCHANGED <<runInfo, schema, hybridStorage, localStorage, locals, history>>
    /\ OutsideStep

\* Lines 87-90: the app version is written and runMigrations is called.
UpdateSetAppVersion ==
    /\ pc = "setAppVersion"
    /\ \E ok \in BOOLEAN :
        IF ok
        THEN /\ Set(APP_VERSION_KEY, runInfo.currentAppVersion)
             /\ pc' = "runMigrations"
             /\ UNCHANGED result
        ELSE Rejects /\ UNCHANGED browserStorage
    /\ UNCHANGED <<runInfo, schema, hybridStorage, localStorage, locals, history>>
    /\ OutsideStep

\* A loop whose bound includes currentSchemaVersion itself.
RunMigrationsOffByOne ==
    /\ pc = "runMigrations"
    /\ IF schema <= runInfo.currentSchemaVersion
       THEN IF schema \notin DOMAIN schemaMigrationMap
            THEN /\ Throws("missing step")
                 /\ UNCHANGED localStorage
            ELSE /\ pc' = schemaMigrationMap[schema]
                 /\ started' = Append(started, schema)
                 /\ localStorage' = IF schema = 0 THEN {} ELSE localStorage
                 /\ UNCHANGED <<runInfo, schema, locals, result, entries, transactionResult,
                                completed, recoveries, error, initial>>
       ELSE /\ pc' = "done"
            /\ result' = "resolved"
            /\ UNCHANGED <<runInfo, schema, localStorage, locals, history>>
    /\ UNCHANGED <<browserStorage, hybridStorage>>
    /\ StepReads({})
\* Lines 105-115: one turn of the loop, up to the first await of the step.
RunMigrations ==
    /\ pc = "runMigrations"
    /\ IF schema < runInfo.currentSchemaVersion
       THEN IF schema \notin DOMAIN schemaMigrationMap
            THEN /\ Throws("missing step")
                 /\ UNCHANGED localStorage
            ELSE /\ pc' = schemaMigrationMap[schema]
                 /\ started' = Append(started, schema)
                 \* migrateFromV0toV1 clears window.localStorage before its first await
                 /\ localStorage' = IF schema = 0 THEN {} ELSE localStorage
                 /\ UNCHANGED <<runInfo, schema, locals, result, entries, transactionResult,
                                completed, recoveries, error, initial>>
       ELSE /\ pc' = "done"
            /\ result' = "resolved"
            /\ UNCHANGED <<runInfo, schema, localStorage, locals, history>>
    /\ UNCHANGED <<browserStorage, hybridStorage>>
    /\ StepReads({})

\* A catch block that resumes the loop after writing the defaults.
RecoverAndRetry ==
    /\ pc = "catch"
    /\ pc' = "runMigrations"
    /\ Set(ADGUARD_SETTINGS_KEY, defaultSettings)
    /\ UNCHANGED <<runInfo, schema, result, hybridStorage, localStorage, locals, history>>
    /\ OutsideStep
\* A recovery that clears the primary store before it writes the defaults.
RecoverClearsStore ==
    /\ pc = "catch"
    /\ pc' = "done"
    /\ result' = "resolved"
    /\ browserStorage' = [k \in StorageKeys |-> IF k = ADGUARD_SETTINGS_KEY THEN defaultSettings ELSE Undefined]
    /\ UNCHANGED <<runInfo, schema, hybridStorage, localStorage, locals, history>>
    /\ OutsideStep
\* Lines 116-120: the write of the defaults completes, or rejects.
Recover ==
    /\ pc = "catch"
    /\ pc' = "done"
    /\ \E ok \in BOOLEAN :
        IF ok
        THEN Set(ADGUARD_SETTINGS_KEY, defaultSettings) /\ result' = "resolved"
        ELSE UNCHANGED browserStorage /\ result' = "rejected"
    /\ UNCHANGED <<runInfo, schema, hybridStorage, localStorage, locals, history>>
    /\ OutsideStep

(***************************************************************************)
(* migrateFromV0toV1.                                                      *)
(***************************************************************************)
\* Lines 393-524: the settings are read and reshaped.
V0Get ==
    /\ pc = "v0_get"
    /\ \E ok \in BOOLEAN :
        LET storageData == browserStorage[ADGUARD_SETTINGS_KEY]
        IN IF ~ok THEN Throws("storage")
           ELSE IF ~ZodUnknownRecord(storageData).ok THEN Throws("settings record")
           ELSE IF ~ReshapeSettingsV0(storageData.o).ok THEN Throws("nested data")
           ELSE /\ settings' = ReshapeSettingsV0(storageData.o).data
                /\ pc' = "v0_move"
                /\ UNCHANGED <<runInfo, schema, moved, sbStorageDataV2, db, dbCloses, lists, pending,
                               filterKeys, rawFilterKeys, migrationData, result, history>>
    /\ UNCHANGED <<browserStorage, hybridStorage, localStorage>>
    /\ StepReads(SettingsReads(V0FieldsRead))

\* Lines 593-603, called from lines 527-538: the next field is moved out.
MoveStorageData ==
    /\ pc = "v0_move"
    /\ moved < Len(MovedFields)
    /\ LET key == MovedFields[moved + 1]
           data == GetKey(settings.o, key)
       IN IF Truthy(data)
          THEN \E ok \in BOOLEAN :
                IF ok
                THEN /\ Set(<<key>>, data)
                     /\ settings' = Obj(DelKey(settings.o, key))
                     /\ moved' = moved + 1
                     /\ UNCHANGED <<pc, runInfo, schema, sbStorageDataV2, db, dbCloses, lists, pending,
                                    filterKeys, rawFilterKeys, migrationData,
                                    result, history>>
                ELSE Throws("storage") /\ UNCHANGED browserStorage
          ELSE /\ moved' = moved + 1
               /\ UNCHANGED <<pc, runInfo, schema, browserStorage, settings, sbStorageDataV2, db,
                              dbCloses, lists, pending, filterKeys, rawFilterKeys, migrationData,
                              result, history>>
    /\ UNCHANGED <<hybridStorage, localStorage>>
    /\ StepReads({})

\* Lines 540-584: the merged settings are validated and written.
V0Set ==
    /\ pc = "v0_move"
    /\ moved = Len(MovedFields)
    /\ LET validated == SettingsValidator(Spread(DefaultSettings, settings.o))
       IN IF ~validated.ok
          THEN Throws("settings validator") /\ UNCHANGED browserStorage
          ELSE \E ok \in BOOLEAN :
                IF ok
                THEN Set(ADGUARD_SETTINGS_KEY, validated.data) /\ Returns
                ELSE Throws("storage") /\ UNCHANGED browserStorage
    /\ UNCHANGED <<hybridStorage, localStorage>>
    /\ StepReads({})

(***************************************************************************)
(* migrateFromV1toV2.                                                      *)
(***************************************************************************)
\* Date.now()
Nows == {1000}

\* A step that looks for the cache where the v0->v1 step took it from.
V1GetFromSettings ==
    /\ pc = "v1_get"
    /\ \E ok \in BOOLEAN, now \in Nows :
        LET record == browserStorage[ADGUARD_SETTINGS_KEY]
            storageData == IF IsObject(record) THEN GetKey(record.o, "sb-lru-cache") ELSE Undefined
        IN IF ~ok THEN Throws("storage")
           ELSE IF ~IsString(storageData) THEN Returns
           ELSE IF JSONParseThrows(storageData) \/ ~SbStorageDataV1(JSONParse(storageData)).ok
           THEN Throws("nested data")
           ELSE /\ sbStorageDataV2' =
                       JSONStringify(SbStorageDataV2(SbStorageDataV1(JSONParse(storageData)).data, now))
                /\ pc' = "v1_set"
                /\ UNCHANGED <<runInfo, schema, settings, moved, db, dbCloses, lists, pending,
                               filterKeys, rawFilterKeys, migrationData, result, history>>
    /\ UNCHANGED <<browserStorage, hybridStorage, localStorage>>
    /\ StepReads(SettingsReads({"sb-lru-cache"}))
\* Lines 345-375: the cache is read and converted.
V1Get ==
    /\ pc = "v1_get"
    /\ \E ok \in BOOLEAN, now \in Nows :
        LET storageData == browserStorage[SB_LRU_CACHE_KEY]
        IN IF ~ok THEN Throws("storage")
           ELSE IF ~IsString(storageData) THEN Returns
           ELSE IF JSONParseThrows(storageData) \/ ~SbStorageDataV1(JSONParse(storageData)).ok
           THEN Throws("nested data")
           ELSE /\ sbStorageDataV2' =
                       JSONStringify(SbStorageDataV2(SbStorageDataV1(JSONParse(storageData)).data, now))
                /\ pc' = "v1_set"
                /\ UNCHANGED <<runInfo, schema, settings, moved, db, dbCloses, lists, pending,
                               filterKeys, rawFilterKeys, migrationData, result, history>>
    /\ UNCHANGED <<browserStorage, hybridStorage, localStorage>>
    /\ StepReads({SB_LRU_CACHE_KEY})

\* Line 377.
V1Set ==
    /\ pc = "v1_set"
    /\ \E ok \in BOOLEAN :
        IF ok
        THEN Set(SB_LRU_CACHE_KEY, sbStorageDataV2) /\ Returns
        ELSE Throws("storage") /\ UNCHANGED browserStorage
    /\ UNCHANGED <<hybridStorage, localStorage>>
    /\ StepReads({})

(***************************************************************************)
(* migrateFromV2toV3.                                                      *)
(***************************************************************************)
\* What IDBUtils.getAll may return: the rows of 'AdguardRulesStorage'.
IDBRow(key, text) == Obj(<< <<"key", Str(key)>>, <<"value", Str(text)>> >>)
IDBTexts == {t \in Texts : Len(t) = MaxTextLen /\ t[1] = "a"}
IDBData ==
    {Num(0), Arr(<<>>)}
        \cup {Arr(<<IDBRow(GetFilterKey(1), t)>>) : t \in IDBTexts}
        \cup {Arr(<<IDBRow(GetFilterKey(1), t), IDBRow(GetFilterKey(2), t)>>) : t \in IDBTexts}

\* A step that goes on to the settings without closing the connection.
V2FinallyLeavesOpen ==
    /\ pc' = "v2_getSettings"
    /\ UNCHANGED <<db, dbCloses>>
    /\ lists' = <<>>
\* The step leaves its try block for the read of the settings (line 317),
\* closing the connection on the way if there is one (lines 308-312).
V2Finally ==
    /\ pc' = "v2_getSettings"
    /\ db' = IF db = "open" THEN "closed" ELSE db
    /\ dbCloses' = IF db = "open" THEN dbCloses + 1 ELSE dbCloses
    /\ lists' = <<>>

\* Line 286.
V2Connect ==
    /\ pc = "v2_connect"
    /\ \E ok \in BOOLEAN :
        IF ok
        THEN /\ db' = "open"
             /\ pc' = "v2_getAll"
             /\ UNCHANGED <<dbCloses, lists>>
        ELSE V2Finally
    /\ UNCHANGED <<runInfo, schema, browserStorage, hybridStorage, localStorage, settings, moved,
                   sbStorageDataV2, pending, filterKeys, rawFilterKeys, migrationData,
                   result, history>>
    /\ StepReads({})

\* Lines 287-299: the rows are read and validated, their writes are issued.
V2GetAll ==
    /\ pc = "v2_getAll"
    /\ \E ok \in BOOLEAN, data \in IDBData :
        IF ok /\ Lists(data).ok
        THEN /\ lists' = Lists(data).data.a
             /\ pending' = 1..Len(Lists(data).data.a)
             /\ pc' = "v2_allSettled"
             /\ UNCHANGED <<db, dbCloses>>
        ELSE V2Finally /\ UNCHANGED pending
    /\ UNCHANGED <<runInfo, schema, browserStorage, hybridStorage, localStorage, settings, moved,
                   sbStorageDataV2, filterKeys, rawFilterKeys, migrationData,
                   result, history>>
    /\ StepReads({})

\* A batch in which the rejection of one write makes the step throw.
V2SetRejectionEscalates ==
    /\ pc = "v2_allSettled"
    /\ \E i \in pending, ok \in BOOLEAN :
        IF ok
        THEN /\ pending' = pending \ {i}
             /\ Set(GetKey(lists[i].o, "key").s, LinesArray(SplitLines(GetKey(lists[i].o, "value").s)))
             /\ UNCHANGED <<pc, runInfo, schema, settings, moved, sbStorageDataV2, db, dbCloses, lists,
                            filterKeys, rawFilterKeys, migrationData, result, history>>
        ELSE Throws("storage") /\ UNCHANGED browserStorage
    /\ UNCHANGED <<hybridStorage, localStorage>>
    /\ StepReads({})
\* Line 298: one write of the batch settles.
V2SetSettles ==
    /\ pc = "v2_allSettled"
    /\ \E i \in pending, ok \in BOOLEAN :
        /\ pending' = pending \ {i}
        /\ IF ok
           THEN Set(GetKey(lists[i].o, "key").s, LinesArray(SplitLines(GetKey(lists[i].o, "value").s)))
           ELSE UNCHANGED browserStorage
    /\ UNCHANGED <<pc, runInfo, schema, hybridStorage, localStorage, settings, moved, sbStorageDataV2,
                   db, dbCloses, lists, filterKeys, rawFilterKeys, migrationData,
                   result, history>>
    /\ StepReads({})

\* A step that leaves the batch without waiting for its writes to settle.
V2BatchNotAwaited ==
    /\ pc = "v2_allSettled"
    /\ V2Finally
    /\ UNCHANGED <<runInfo, schema, browserStorage, hybridStorage, localStorage, settings, moved,
                   sbStorageDataV2, pending, filterKeys, rawFilterKeys, migrationData,
                   result, history>>
    /\ StepReads({})
\* Lines 297-312: every write has settled.
V2AllSettled ==
    /\ pc = "v2_allSettled"
    /\ pending = {}
    /\ V2Finally
    /\ UNCHANGED <<runInfo, schema, browserStorage, hybridStorage, localStorage, settings, moved,
                   sbStorageDataV2, pending, filterKeys, rawFilterKeys, migrationData,
                   result, history>>
    /\ StepReads({})

\* Lines 317-334: the settings are read and the trusted flags added.
V2GetSettings ==
    /\ pc = "v2_getSettings"
    /\ \E ok \in BOOLEAN :
        LET storageData == browserStorage[ADGUARD_SETTINGS_KEY]
            customFilters == GetKey(storageData.o, "custom-filters")
        IN IF ~ok THEN Throws("storage")
           ELSE IF ~ZodUnknownRecord(storageData).ok THEN Throws("settings record")
           ELSE IF ~IsString(customFilters) THEN Returns
           ELSE IF JSONParseThrows(customFilters)
                   \/ ~CustomFiltersTransformerV2(JSONParse(customFilters)).ok
           THEN Throws("nested data")
           ELSE /\ settings' = Obj(PutKey(storageData.o, "custom-filters",
                        JSONStringify(CustomFiltersTransformerV2(JSONParse(customFilters)).data)))
                /\ pc' = "v2_set"
                /\ UNCHANGED <<runInfo, schema, moved, sbStorageDataV2, db, dbCloses, lists, pending,
                               filterKeys, rawFilterKeys, migrationData, result, history>>
    /\ UNCHANGED <<browserStorage, hybridStorage, localStorage>>
    /\ StepReads(SettingsReads({"custom-filters"}))

\* Line 336.
V2Set ==
    /\ pc = "v2_set"
    /\ \E ok \in BOOLEAN :
        IF ok
        THEN Set(ADGUARD_SETTINGS_KEY, settings) /\ Returns
        ELSE Throws("storage") /\ UNCHANGED browserStorage
    /\ UNCHANGED <<hybridStorage, localStorage>>
    /\ StepReads({})

(***************************************************************************)
(* migrateFromV3toV4.                                                      *)
(***************************************************************************)
\* Lines 153-218: the entries are read, the filter keys found, the data staged.
V3Entries ==
    /\ pc = "v3_entries"
    /\ \E ok \in BOOLEAN :
        LET keys == {k \in StorageKeys : browserStorage[k] # Undefined}
            raw == {k \in keys : StartsWith(k, RAW_FILTER_KEY_PREFIX)}
            processed == {k \in keys : StartsWith(k, FILTER_KEY_PREFIX)}
        IN IF ~ok THEN Throws("storage")
           ELSE /\ entries' = browserStorage
                /\ UNCHANGED transactionResult
                /\ IF raw = {} /\ processed = {} THEN Return
                   ELSE /\ rawFilterKeys' = raw
                        /\ filterKeys' = processed
                        /\ migrationData' = MigrationData(processed, raw, browserStorage)
                        /\ pc' = "v3_setMultiple"
                        /\ UNCHANGED <<runInfo, schema, settings, moved, sbStorageDataV2, db, dbCloses,
                                       lists, pending, result, started, completed, recoveries, error, initial>>
    /\ UNCHANGED <<browserStorage, hybridStorage, localStorage>>
    /\ StepReads({k \in StorageKeys : browserStorage[k] # Undefined})

\* hybridStorage.setMultiple(data) succeeded: every member is stored.
SetMultiple(data) ==
    hybridStorage' = [k \in StorageKeys |-> IF HasKey(data, k) THEN GetKey(data, k) ELSE hybridStorage[k]]
\* browserStorage.removeMultiple(keys) completed.
RemoveMultiple(keys) ==
    browserStorage' = [k \in StorageKeys |-> IF k \in keys THEN Undefined ELSE browserStorage[k]]

\* A step that goes on to remove the legacy keys whatever the transaction reports.
V3SetMultipleIgnoresResult ==
    /\ pc = "v3_setMultiple"
    /\ \E success \in BOOLEAN :
        /\ transactionResult' = Bool(success)
        /\ IF success THEN SetMultiple(migrationData) ELSE UNCHANGED hybridStorage
        /\ pc' = "v3_removeMultiple"
        /\ UNCHANGED <<runInfo, schema, locals, result, started, completed, recoveries, error, initial>>
    /\ UNCHANGED <<browserStorage, localStorage, entries>>
    /\ StepReads({})
\* Lines 221-224: the transaction reports its result.
V3SetMultiple ==
    /\ pc = "v3_setMultiple"
    /\ \E success \in BOOLEAN :
        /\ transactionResult' = Bool(success)
        /\ IF success
           THEN /\ SetMultiple(migrationData)
                /\ pc' = "v3_removeMultiple"
                /\ UNCHANGED <<runInfo, schema, locals, result, started, completed, recoveries, error, initial>>
           ELSE Raise("transaction") /\ UNCHANGED hybridStorage
    /\ UNCHANGED <<browserStorage, localStorage, entries>>
    /\ StepReads({})

\* Line 227.
V3RemoveMultiple ==
    /\ pc = "v3_removeMultiple"
    /\ \E ok \in BOOLEAN :
        IF ok
        THEN /\ RemoveMultiple(rawFilterKeys \cup filterKeys)
             /\ pc' = "v3_getSettings"
             /\ UNCHANGED <<runInfo, schema, locals, result, history>>
        ELSE Throws("storage") /\ UNCHANGED browserStorage
    /\ UNCHANGED <<hybridStorage, localStorage>>
    /\ StepReads({})

\* Lines 242-258: the settings are read and the scheduled check times filled in.
V3GetSettings ==
    /\ pc = "v3_getSettings"
    /\ \E ok \in BOOLEAN :
        LET storageData == browserStorage[ADGUARD_SETTINGS_KEY]
            rawFiltersVersion == GetKey(storageData.o, "filters-version")
            filtersVersionParsed == FiltersVersionDataValidatorV3(JSONParse(rawFiltersVersion))
        IN IF ~ok THEN Throws("storage")
           ELSE IF ~ZodUnknownRecord(storageData).ok THEN Throws("settings record")
           ELSE IF ~IsString(rawFiltersVersion) THEN Returns
           ELSE IF JSONParseThrows(rawFiltersVersion) THEN Throws("nested data")
           ELSE IF ~filtersVersionParsed.ok THEN Returns
           ELSE /\ settings' = Obj(PutKey(storageData.o, "filters-version",
                        JSONStringify(BackfillFiltersVersion(filtersVersionParsed.data))))
                /\ pc' = "v3_set"
                /\ UNCHANGED <<runInfo, schema, moved, sbStorageDataV2, db, dbCloses, lists, pending,
                               filterKeys, rawFilterKeys, migrationData, result, history>>
    /\ UNCHANGED <<browserStorage, hybridStorage, localStorage>>
    /\ StepReads(SettingsReads({"filters-version"}))

\* Line 260.
V3Set ==
    /\ pc = "v3_set"
    /\ \E ok \in BOOLEAN :
        IF ok
        THEN Set(ADGUARD_SETTINGS_KEY, settings) /\ Returns
        ELSE Throws("storage") /\ UNCHANGED browserStorage
    /\ UNCHANGED <<hybridStorage, localStorage>>
    /\ StepReads({})

(***************************************************************************)
(* The specification.                                                      *)
(***************************************************************************)
Next ==
    \/ UpdateSetClientId
    \/ UpdateSetSchemaVersion
    \/ UpdateSetAppVersion
    \/ RunMigrations
    \/ Recover
    \/ V0Get
    \/ MoveStorageData
    \/ V0Set
    \/ V1Get
    \/ V1Set
    \/ V2Connect
    \/ V2GetAll
    \/ V2SetSettles
    \/ V2AllSettled
    \/ V2GetSettings
    \/ V2Set
    \/ V3Entries
    \/ V3SetMultiple
    \/ V3RemoveMultiple
    \/ V3GetSettings
    \/ V3Set

Spec == Init /\ [][Next]_vars

(***************************************************************************)
(* Properties.                                                             *)
(***************************************************************************)
prev == runInfo.previousSchemaVersion
cur == runInfo.currentSchemaVersion
\* The versions previousSchemaVersion .. currentSchemaVersion - 1, ascending.
Span == [i \in 1..(cur - prev) |-> prev + i - 1]
StepCompleted(v) == \E i \in 1..Len(completed) : completed[i] = v
\* runMigrations was called and has ended (update() did not reject before it).
RunMigrationsEnded == pc = "done" /\ (result = "resolved" \/ recoveries > 0)
\* The Settings Record in the primary store.
SettingsRecord == browserStorage[ADGUARD_SETTINGS_KEY]
\* The filter keys that the v3->v4 step enumerated.
EnumeratedFilterKeys == {k \in ProcessedFilterKeys \cup RawFilterKeys : entries[k] # Undefined}

\* C1, as stated: whatever the pair previousSchemaVersion <= currentSchemaVersion,
\* a run of runMigrations executes exactly the steps of the versions
\* previousSchemaVersion .. currentSchemaVersion - 1, each once and in order.
C1_ExecutesWholeSpan == RunMigrationsEnded => started = Span /\ completed = Span

\* C1, amended: the steps are started in ascending order from
\* previousSchemaVersion, each at most once, without gap or retry and only if
\* registered; a step is started only after the one before it returned; the run
\* executes the whole span exactly when no step throws and none is missing.
C1_StepsInAscendingOrder ==
    /\ Len(started) <= Len(Span)
    /\ \A i \in 1..Len(started) : started[i] = Span[i] /\ started[i] \in DOMAIN schemaMigrationMap
    /\ Len(completed) \in {Len(started) - 1, Len(started)}
    /\ \A i \in 1..Len(completed) : completed[i] = started[i]
    /\ RunMigrationsEnded => ((started = Span /\ completed = Span) <=> recoveries = 0)
C1_Witness == pc = "done" /\ prev = 0 /\ cur = 4 /\ completed = <<0, 1, 2, 3>>

\* C2, as stated: update() never rejects; a failure of a step is absorbed into
\* the reset of the settings.
C2_UpdateAlwaysResolves ==
    (pc = "done" /\ recoveries > 0) => result = "resolved" /\ SettingsRecord = defaultSettings

\* C3: once a step has failed (or is missing) no step is started any more, the
\* catch block that writes the defaults is entered exactly once, and it is
\* never entered in a run in which every step of the span returned.
C3_FailureStopsRunAndRecoversOnce ==
    /\ [](/\ recoveries \in {0, 1}
          /\ recoveries = 1 => pc \in {"catch", "done"}
          /\ pc = "catch" => recoveries = 1
          /\ (pc = "done" /\ Len(completed) < Len(started)) => recoveries = 1
          /\ (pc = "done" /\ completed = Span) => recoveries = 0)
    /\ [][recoveries > 0 => started' = started /\ completed' = completed /\ recoveries' = recoveries]_vars
C3_Witness ==
    pc = "done" /\ recoveries = 1 /\ cur = 4 /\ started = <<0, 1>> /\ completed = <<0>>

\* C4, as stated: a run that has ended either completed every step of the span
\* or left the Settings Record equal to the default configuration.
C4_MigratedOrDefaulted ==
    RunMigrationsEnded => (completed = Span /\ recoveries = 0) \/ SettingsRecord = defaultSettings

\* C5, as stated: the stored schema version is the highest version whose step
\* has completed; it is never ahead of the last completed step.
C5_SchemaVersionTracksCompletedSteps ==
    browserStorage[SCHEMA_VERSION_KEY] = Num(prev + Len(completed))

\* C6, as stated: when the span holds a version without a registered step
\* (currentSchemaVersion > 4) the registered steps below it run in order, the
\* lookup of the first unregistered version raises, no step runs afterwards and
\* the run ends with the Settings Record equal to the defaults.
C6_MissingStepEndsInDefaults ==
    (RunMigrationsEnded /\ prev < cur /\ cur > 4) =>
        /\ recoveries = 1
        /\ \A i \in 1..Len(started) : started[i] = Span[i] /\ started[i] < 4
        /\ SettingsRecord = defaultSettings

\* C7: when previousSchemaVersion = currentSchemaVersion no step is started, the
\* catch block is not entered, and every key of both storages other than the
\* client id, the schema version and the app version keeps its value.
C7_NoStepWhenVersionsEqual ==
    prev = cur =>
        /\ started = <<>>
        /\ recoveries = 0
        /\ hybridStorage = initial.hybridStorage
        /\ \A k \in StorageKeys \ {CLIENT_ID_KEY, SCHEMA_VERSION_KEY, APP_VERSION_KEY} :
                browserStorage[k] = initial.browserStorage[k]
C7_Witness ==
    /\ prev = cur
    /\ pc = "done"
    /\ result = "resolved"
    /\ browserStorage[APP_VERSION_KEY] = currentAppVersion
    /\ browserStorage[GetFilterKey(1)] # Undefined
    /\ IsObject(SettingsRecord)

\* C8: an enumerated legacy filter key is absent from the legacy backend only
\* when setMultiple has reported success; when it reported failure the step has
\* thrown and every enumerated key still holds the value that was enumerated.
C8_LegacyKeysRemovedOnlyAfterWrite ==
    /\ (\E k \in EnumeratedFilterKeys : browserStorage[k] = Undefined) => transactionResult = Bool(TRUE)
    /\ transactionResult = Bool(FALSE) =>
            /\ pc \in {"catch", "done"}
            /\ ~StepCompleted(3)
            /\ \A k \in EnumeratedFilterKeys : browserStorage[k] = entries[k]
C8_Witness ==
    /\ transactionResult = Bool(FALSE)
    /\ pc = "done"
    /\ {GetFilterKey(1), GetRawFilterKey(2)} \subseteq EnumeratedFilterKeys

\* The text a sequence of lines stands for: the lines joined by LF.
RECURSIVE C9_Join(_)
C9_Join(lines) ==
    IF Len(lines) = 1 THEN lines[1].s ELSE lines[1].s \o <<LF>> \o C9_Join(Tail(lines))
\* A text with every CR LF replaced by LF.
RECURSIVE C9_DropCR(_)
C9_DropCR(s) ==
    IF s = <<>> THEN <<>>
    ELSE IF Head(s) = CR /\ Len(s) >= 2 /\ s[2] = LF THEN C9_DropCR(Tail(s))
    ELSE <<Head(s)>> \o C9_DropCR(Tail(s))
\* The hybrid storage holds under key the lines of the filter content v.
C9_HoldsLinesOf(key, v) ==
    LET held == hybridStorage[key]
    IN IF IsArray(v) THEN held = v
       ELSE /\ IsArray(held)
            /\ Len(held.a) >= 1
            /\ \A i \in 1..Len(held.a) : IsString(held.a[i]) /\ \A j \in 1..Len(held.a[i].s) : held.a[i].s[j] # LF
            /\ C9_Join(held.a) = C9_DropCR(v.s)

\* C9: after the v3->v4 step returned, the hybrid storage holds the lines of every
\* processed filter whose key has an id and whose value is a string or an
\* array of strings, the text of every raw filter whose key has an id and
\* whose value is a string, and the legacy backend holds no enumerated key.
C9_FiltersConsolidated ==
    StepCompleted(3) =>
        /\ \A id \in FilterIds :
            LET v == entries[GetFilterKey(id)]
            IN (IsString(v) \/ (IsArray(v) /\ \A i \in 1..Len(v.a) : IsString(v.a[i])))
                    => C9_HoldsLinesOf(GetFilterKey(id), v)
        /\ \A id \in FilterIds :
            LET v == entries[GetRawFilterKey(id)]
            IN IsString(v) => hybridStorage[GetRawFilterKey(id)] = v
        /\ \A k \in EnumeratedFilterKeys : browserStorage[k] = Undefined
C9_Witness ==
    /\ StepCompleted(3)
    /\ entries[GetFilterKey(1)] = Str(<<"a", LF>>)
    /\ hybridStorage[GetFilterKey(1)] = Arr(<<Str(<<"a">>), Str(<<>>)>>)
    /\ entries[GetRawFilterKey(2)] = Str(<<"a", LF>>)
    /\ hybridStorage[GetRawFilterKey(2)] = Str(<<"a", LF>>)
    /\ browserStorage[GetFilterKey(1)] = Undefined
    /\ browserStorage[GetRawFilterKey(2)] = Undefined

\* The filters-version field of a Settings Record, parsed; Undefined if the
\* record has no mapping from filter ids to objects with a numeric lastCheckTime.
C10_FiltersVersionOf(record) ==
    LET field == IF IsObject(record) THEN GetKey(record.o, "filters-version") ELSE Undefined
    IN IF IsJsonText(field) /\ IsObject(field.json)
          /\ \A i \in 1..Len(field.json.o) :
                /\ IsNumericText(field.json.o[i][1])
                /\ IsObject(field.json.o[i][2])
                /\ IsNumber(GetKey(field.json.o[i][2].o, "lastCheckTime"))
                /\ GetKey(field.json.o[i][2].o, "lastScheduledCheckTime").t \in {"undefined", "number"}
       THEN field.json ELSE Undefined
\* C10, as stated: after the v3->v4 step returned on such a record (and before
\* any recovery of a later failure), whatever the legacy backend held, every
\* entry that lacked lastScheduledCheckTime has it equal to its lastCheckTime
\* and every other entry is unchanged.
C10_ScheduledCheckTimeBackfilled ==
    LET before == C10_FiltersVersionOf(initial.browserStorage[ADGUARD_SETTINGS_KEY])
        after == C10_FiltersVersionOf(SettingsRecord)
    IN (prev = 3 /\ StepCompleted(3) /\ recoveries = 0 /\ before # Undefined) =>
            /\ after # Undefined
            /\ Keys(after.o) = Keys(before.o)
            /\ \A k \in Keys(before.o) :
                LET old == GetKey(before.o, k).o
                    new == GetKey(after.o, k).o
                IN IF HasKey(old, "lastScheduledCheckTime")
                   THEN SameMembers(new, old)
                   ELSE SameMembers(new, PutKey(old, "lastScheduledCheckTime", GetKey(old, "lastCheckTime")))

\* A filters-version field that the v3->v4 step cannot use: not a string, not
\* parsable text, or not a mapping id -> {lastCheckTime, lastScheduledCheckTime?}.
C11_Invalid(field) ==
    \/ ~IsString(field)
    \/ JSONParseThrows(field)
    \/ ~FiltersVersionDataValidatorV3(JSONParse(field)).ok
\* C11, as stated: when the v3->v4 step has read a Settings Record whose
\* filters-version field is invalid, the step returns without raising, the
\* catch block is not entered and the stored record keeps its value.
C11_FiltersVersionFailureNotFatal ==
    [][(/\ pc = "v3_getSettings"
        /\ IsObject(SettingsRecord)
        /\ C11_Invalid(GetKey(SettingsRecord.o, "filters-version"))
        /\ error' # "storage")
       => (/\ pc' = "runMigrations"
           /\ completed' = Append(completed, 3)
           /\ recoveries' = recoveries
           /\ browserStorage' = browserStorage)]_vars

\* What update() itself stored under a top-level key before the steps ran.
C12_Bookkept(key) ==
    CASE key = CLIENT_ID_KEY -> IF Truthy(runInfo.clientId) THEN runInfo.clientId ELSE GenClientId
      [] key = SCHEMA_VERSION_KEY -> Num(cur)
      [] key = APP_VERSION_KEY -> runInfo.currentAppVersion
      [] OTHER -> initial.browserStorage[key]
\* The v0->v1 step of a run from version 0 has returned and nothing ran after it.
C12_AfterStep0 ==
    /\ prev = 0
    /\ completed = <<0>>
    /\ recoveries = 0
\* C12, as stated: after the v0->v1 step every moved field that the Settings
\* Record held is stored under its top-level key with its value and is gone
\* from the record; for an absent field nothing is written.
C12_FieldsMovedOut ==
    C12_AfterStep0 =>
        \A i \in 1..Len(MovedFields) :
            LET field == MovedFields[i]
                value == GetKey(initial.browserStorage[ADGUARD_SETTINGS_KEY].o, field)
            IN IF value # Undefined
               THEN browserStorage[<<field>>] = value /\ ~HasKey(SettingsRecord.o, field)
               ELSE browserStorage[<<field>>] = C12_Bookkept(<<field>>)

\* The deprecated keys and their new names.
C13_Renames ==
    << <<"default-whitelist-mode", "default-allowlist-mode">>,
       <<"white-list-domains", "allowlist-domains">>,
       <<"stealth_disable_stealth_mode", "stealth-disable-stealth-mode">>,
       <<"custom_filters", "custom-filters">> >>
C13_Normalised(old, new) ==
    /\ IsObject(new)
    /\ Keys(new.o) = (Keys(old.o) \ {"languages"}) \cup {"trusted", "timeUpdated"}
    /\ \A k \in Keys(old.o) \ {"languages", "trusted", "timeUpdated"} : GetKey(new.o, k) = GetKey(old.o, k)
    /\ GetKey(new.o, "trusted") = Bool(Truthy(GetKey(old.o, "trusted")))
    /\ HasKey(old.o, "timeUpdated") \/ GetKey(new.o, "timeUpdated") = Num(0)
C14_NestedFields == {"groups-state", "filters-state", "custom-filters", "filters-version"}
\* Two documents with the same content, whatever the order of their fields.
RECURSIVE C14_SameContent(_, _)
C14_SameContent(a, b) ==
    CASE IsObject(a) /\ IsObject(b) ->
            /\ Keys(a.o) = Keys(b.o)
            /\ \A k \in Keys(a.o) : C14_SameContent(GetKey(a.o, k), GetKey(b.o, k))
      [] IsArray(a) /\ IsArray(b) ->
            /\ Len(a.a) = Len(b.a)
            /\ \A i \in 1..Len(a.a) : C14_SameContent(a.a[i], b.a[i])
      [] OTHER -> a = b
\* C14, as stated: after a run of one step, a nested structure for which the
\* step had no field to add, remove or change is stored as the very text that
\* was read, the order of the fields included.
C14_RoundTripIdentical ==
    (/\ prev \in {0, 2, 3} /\ completed = <<prev>> /\ recoveries = 0
     /\ IsObject(initial.browserStorage[ADGUARD_SETTINGS_KEY]) /\ IsObject(SettingsRecord)) =>
        \A field \in C14_NestedFields :
            LET read == GetKey(initial.browserStorage[ADGUARD_SETTINGS_KEY].o, field)
                written == GetKey(SettingsRecord.o, field)
            IN (IsJsonText(read) /\ IsJsonText(written) /\ C14_SameContent(read.json, written.json))
                    => written = read

\* C15: the step taken from the catch block changes no key of the primary store
\* other than the Settings Record, and nothing of the hybrid storage or of
\* window.localStorage: what the steps wrote before the failure stays.
C15_RecoveryWritesOnlySettings ==
    [][pc = "catch" =>
        /\ hybridStorage' = hybridStorage
        /\ localStorage' = localStorage
        /\ \A k \in StorageKeys \ {ADGUARD_SETTINGS_KEY} : browserStorage'[k] = browserStorage[k]]_vars
C15_Witness ==
    /\ pc = "done" /\ recoveries = 1 /\ result = "resolved"
    /\ completed = <<3>>
    /\ initial.browserStorage[ADGUARD_SETTINGS_KEY] # defaultSettings
    /\ SettingsRecord = defaultSettings
    /\ initial.browserStorage[GetFilterKey(1)] # Undefined
    /\ browserStorage[GetFilterKey(1)] = Undefined
    /\ hybridStorage[GetFilterKey(1)] # Undefined

\* The three bookkeeping keys as update() found them, and as it writes them.
C16_Found(key) == browserStorage[key] = initial.browserStorage[key]
C16_Written(key) == browserStorage[key] = C12_Bookkept(key)
\* C16: the client id (the supplied one if there is one, else a generated one)
\* is written first, then the schema version, then the app version, and no
\* step starts before all three are written, whatever the run ends with.
C16_BookkeepingBeforeSteps ==
    /\ pc = "setClientId" =>
            C16_Found(CLIENT_ID_KEY) /\ C16_Found(SCHEMA_VERSION_KEY) /\ C16_Found(APP_VERSION_KEY)
    /\ pc = "setSchemaVersion" =>
            C16_Written(CLIENT_ID_KEY) /\ C16_Found(SCHEMA_VERSION_KEY) /\ C16_Found(APP_VERSION_KEY)
    /\ pc = "setAppVersion" =>
            C16_Written(CLIENT_ID_KEY) /\ C16_Written(SCHEMA_VERSION_KEY) /\ C16_Found(APP_VERSION_KEY)
    /\ pc \in {"setClientId", "setSchemaVersion", "setAppVersion"} => started = <<>> /\ recoveries = 0
    /\ (pc = "runMigrations" /\ started = <<>>) =>
            C16_Written(CLIENT_ID_KEY) /\ C16_Written(SCHEMA_VERSION_KEY) /\ C16_Written(APP_VERSION_KEY)
    /\ (started # <<>> \/ recoveries > 0) =>
            C16_Written(SCHEMA_VERSION_KEY) /\ C16_Written(APP_VERSION_KEY)
C16_Witness ==
    /\ pc = "done" /\ recoveries = 1 /\ started # <<>>
    /\ prev < cur
    /\ runInfo.clientId = Undefined
    /\ browserStorage[CLIENT_ID_KEY] = GenClientId
    /\ browserStorage[SCHEMA_VERSION_KEY] = Num(cur)
    /\ browserStorage[APP_VERSION_KEY] = runInfo.currentAppVersion

\* C17: at most one step is started and not yet ended; writes of the batch of
\* the v2->v3 step are outstanding only while that step waits for them; and a
\* step starts only when every step before it has returned and no write is
\* outstanding.
C17_StepsStrictlySequential ==
    /\ [](/\ Len(started) - Len(completed) \in {0, 1}
          /\ pending # {} =>
                /\ pc = "v2_allSettled"
                /\ started[Len(started)] = 2
                /\ Len(completed) = Len(started) - 1)
    /\ [][started' # started =>
            /\ pending = {}
            /\ Len(completed) = Len(started)
            /\ recoveries = 0]_vars
C17_Witness ==
    /\ started = <<2, 3>>
    /\ completed = <<2>>
    /\ initial.browserStorage[GetFilterKey(2)] = Undefined
    /\ IsArray(browserStorage[GetFilterKey(1)])
    /\ IsArray(browserStorage[GetFilterKey(2)])

\* C18: while the v2->v3 step copies the rows of the indexed DB, whatever
\* fails, the step does not raise: it stays in the copy or goes on to the
\* read of the settings, and it leaves the batch only when every write of
\* the batch has settled.
C18_CopyFailuresNotFatal ==
    [][(pc \in {"v2_connect", "v2_getAll", "v2_allSettled"}) =>
        /\ pc' \in {"v2_getAll", "v2_allSettled", "v2_getSettings"}
        /\ recoveries' = recoveries
        /\ error' = "none"
        /\ (pc = "v2_allSettled" /\ pc' # pc) => (pending = {})
    ]_vars
\* One write of a batch of two was rejected, the other was made, and the step
\* reads the settings.
C18_Witness ==
    /\ pc = "v2_getSettings"
    /\ db = "closed"
    /\ recoveries = 0
    /\ initial.browserStorage[GetFilterKey(1)] = Undefined
    /\ browserStorage[GetFilterKey(1)] = Undefined
    /\ IsArray(browserStorage[GetFilterKey(2)])

\* C19: when the final validation of the merged settings fails in the v0->v1
\* step, the step raises without writing the Settings Record, the catch block
\* of runMigrations is entered, no later step runs, and the run ends with the
\* Settings Record equal to the defaults.
C19_ValidatorFailureEndsInDefaults ==
    error = "settings validator" =>
        /\ started = <<0>>
        /\ completed = <<>>
        /\ pc \in {"catch", "done"}
        /\ pc = "catch" => SettingsRecord = initial.browserStorage[ADGUARD_SETTINGS_KEY]
        /\ pc = "done" => SettingsRecord = defaultSettings

\* C20: a location that a step emptied (a legacy filter key removed by the
\* v3->v4 step, a field of the Settings Record removed or renamed away by the
\* v0->v1 step, a key of window.localStorage) is not read afterwards, neither
\* by the rest of that step nor by a step that runs later in the run.
C20_DeletedKeysNotReread ==
    \A r \in lastRead, d \in removed : d[1] <= r[1] => d[2] # r[2]
\* The v0->v1 step moved the safebrowsing cache out of the Settings Record and
\* renamed custom_filters away; the v1->v2 step has read the cache and the
\* v2->v3 step reads the custom filters.
C20_Witness ==
    /\ <<0, SettingsField("sb-lru-cache")>> \in removed
    /\ <<0, SettingsField("custom_filters")>> \in removed
    /\ completed = <<0, 1>>
    /\ lastRead = {<<2, ADGUARD_SETTINGS_KEY>>, <<2, SettingsField("custom-filters")>>}
\* The v3->v4 step removed a legacy filter key and has read the settings.
C20_WitnessV3 ==
    /\ <<3, GetFilterKey(1)>> \in removed
    /\ <<3, ADGUARD_SETTINGS_KEY>> \in lastRead

\* The hybrid storage holds the content that the step enumerated under key.
C21_ContentWritten(key) ==
    IF StartsWith(key, FILTER_KEY_PREFIX) /\ FilterSchemaOk(entries[key])
    THEN C9_HoldsLinesOf(key, entries[key])
    ELSE hybridStorage[key] = entries[key]
\* C21: every legacy raw or processed filter key that the v3->v4 step removed
\* from browser.storage.local has its content in the hybrid storage, also when
\* its filter id could not be extracted or its value had the wrong shape.
C21_NoFilterContentLost ==
    \A k \in EnumeratedFilterKeys :
        (StartsWith(k, FILTER_KEY_PREFIX) \/ StartsWith(k, RAW_FILTER_KEY_PREFIX))
            /\ browserStorage[k] = Undefined
            => C21_ContentWritten(k)

\* The safebrowsing cache that the Settings Record held when update() was called.
C22_OriginalCache ==
    IF IsObject(initial.browserStorage[ADGUARD_SETTINGS_KEY])
    THEN GetKey(initial.browserStorage[ADGUARD_SETTINGS_KEY].o, "sb-lru-cache")
    ELSE Undefined
\* A text that serializes an array of { key, value } pairs of strings.
C22_IsPairsText(x) ==
    /\ IsJsonText(x)
    /\ IsArray(JSONParse(x))
    /\ \A i \in 1..Len(JSONParse(x).a) :
        LET e == JSONParse(x).a[i]
        IN IsObject(e) /\ Keys(e.o) = {"key", "value"}
           /\ IsString(GetKey(e.o, "key")) /\ IsString(GetKey(e.o, "value"))
\* record is { key, value: { list: value } } of the pair, with an expiry of
\* now + TTL exactly when the value is not 'allowlist'.
C22_RecordOf(pair, record) ==
    /\ IsObject(record)
    /\ Keys(record.o) = {"key", "value"}
    /\ GetKey(record.o, "key") = GetKey(pair.o, "key")
    /\ IsObject(GetKey(record.o, "value"))
    /\ LET value == GetKey(record.o, "value").o
       IN /\ GetKey(value, "list") = GetKey(pair.o, "value")
          /\ IF GetKey(pair.o, "value") = Str(<<"allowlist">>)
             THEN Keys(value) = {"list"}
             ELSE /\ Keys(value) = {"list", "expires"}
                  /\ \E now \in Nows : GetKey(value, "expires") = Num(now + CACHE_TTL_MS)
\* C22: in a run from version 0 in which the v0->v1 and the v1->v2 step have
\* returned, a cache that the Settings Record held as the text of { key, value }
\* pairs lies under the top-level key sb-lru-cache as the text of one converted
\* record per pair, in order; and a v1->v2 step that finds no string under the
\* key leaves both storages as they are and returns or fails at once.
C22_CacheMovedAndConverted ==
    /\ []((prev = 0 /\ StepCompleted(0) /\ StepCompleted(1) /\ C22_IsPairsText(C22_OriginalCache)) =>
            LET pairs == JSONParse(C22_OriginalCache).a
                cache == browserStorage[SB_LRU_CACHE_KEY]
            IN /\ IsJsonText(cache)
               /\ IsArray(JSONParse(cache))
               /\ Len(JSONParse(cache).a) = Len(pairs)
               /\ \A i \in 1..Len(pairs) : C22_RecordOf(pairs[i], JSONParse(cache).a[i]))
    /\ [][(pc = "v1_get" /\ ~IsString(browserStorage[SB_LRU_CACHE_KEY])) =>
            /\ browserStorage' = browserStorage
            /\ hybridStorage' = hybridStorage
            /\ pc' \in {"runMigrations", "catch"}
        ]_vars
\* The cache of two pairs, one of them on the allowlist, was moved and converted.
C22_Witness ==
    /\ prev = 0
    /\ StepCompleted(1)
    /\ C22_OriginalCache = SbCacheV1
    /\ initial.browserStorage[SB_LRU_CACHE_KEY] = Undefined
    /\ IsJsonText(browserStorage[SB_LRU_CACHE_KEY])
    /\ Len(JSONParse(browserStorage[SB_LRU_CACHE_KEY]).a) = 2
    /\ Keys(GetKey(JSONParse(browserStorage[SB_LRU_CACHE_KEY]).a[2].o, "value").o) = {"list", "expires"}
\* The v1->v2 step found no string under the key and returned.
C22_WitnessNoString ==
    /\ completed = <<1>>
    /\ ~IsString(initial.browserStorage[SB_LRU_CACHE_KEY])
    /\ browserStorage[SB_LRU_CACHE_KEY] = initial.browserStorage[SB_LRU_CACHE_KEY]

\* C23: in the v2->v3 step a connection that was opened is open during the
\* copy and is closed exactly once when the step leaves the copy, on every
\* path, so that it is closed when the step reads the Settings Record; when
\* the connect failed there is no connection and nothing is closed.
C23_ConnectionClosedOnce ==
    /\ [](/\ pc = "v2_connect" => db = "null" /\ dbCloses = 0
          /\ pc \in {"v2_getAll", "v2_allSettled"} => db = "open" /\ dbCloses = 0
          /\ pc \in {"v2_getSettings", "v2_set"} =>
                \/ db = "closed" /\ dbCloses = 1
                \/ db = "null" /\ dbCloses = 0)
    /\ [][/\ (pc = "v2_connect" /\ pc' = "v2_getSettings") => (db' = "null" /\ dbCloses' = 0)
          /\ (pc \in {"v2_getAll", "v2_allSettled"} /\ pc' # pc /\ pc' # "v2_allSettled") =>
                (pc' = "v2_getSettings" /\ db' = "closed" /\ dbCloses' = 1)
          /\ dbCloses' > dbCloses => (db = "open" /\ pc' = "v2_getSettings")
        ]_vars
\* The connection was opened, the first row was copied, and the connection is
\* closed at the read of the settings.
C23_Witness ==
    /\ pc = "v2_getSettings"
    /\ db = "closed"
    /\ dbCloses = 1
    /\ initial.browserStorage[GetFilterKey(1)] = Undefined
    /\ IsArray(browserStorage[GetFilterKey(1)])
    /\ browserStorage[GetFilterKey(2)] = Undefined
\* The connect failed: the step reads the settings without a connection.
C23_WitnessNoConnection ==
    /\ pc = "v2_getSettings"
    /\ db = "null"
    /\ dbCloses = 0
====
